---------------------------- MODULE Spec2Model ----------------------------
(***************************************************************************)
(* CHIP-8 core (rsc8_core): the instruction decoder, the machine state     *)
(* engine and the linear congruential generator, as a state machine.       *)
(*                                                                         *)
(* Encoding of the Rust data:                                              *)
(*   [u8; 4096] memory   the finite map of its non-zero cells (a cell not   *)
(*                       in DOMAIN memory holds 0), read with Load and      *)
(*                       written with Store;                                *)
(*   [bool; 2048] screen the set of the indices of its true cells;          *)
(*   Option<usize>       <<"None">> or <<"Some", k>>;                       *)
(*   Result<T, E>        <<"Ok", t>> or <<"Err", e>>;                       *)
(*   an enum value       the tuple of its variant name and its operands;    *)
(*   a panic             the field panic of the machine, "none" while the   *)
(*                       process runs; the fields keep what was written     *)
(*                       before the panic.                                  *)
(* Integer arithmetic that can overflow is modelled for both build          *)
(* profiles: overflow checks on (a panic) and off (wrap-around).            *)
(***************************************************************************)
EXTENDS Integers, Sequences, FiniteSets, TLC

\* chip8.rs constants
MEMORY_SIZE == 4096
NUM_REGISTERS == 16
STACK_SIZE == 16
PROGRAM_START == 512
ROM_START == 512
FONTSET_SIZE == 80
KEYPAD_SIZE == 16
SCREEN_WIDTH == 64
SCREEN_HEIGHT == 32

\* rng.rs constants
DEFAULT_SEED == 888
LCG_A == 75
LCG_C == 74

\* widths of the Rust integer types
U8 == 256
U16 == 65536

FONTSET ==
    << 240, 144, 144, 144, 240,
        32,  96,  32,  32, 112,
       240,  16, 240, 128, 240,
       240,  16, 240,  16, 240,
       144, 144, 240,  16,  16,
       240, 128, 240,  16, 240,
       240, 128, 240, 144, 240,
       240,  16,  32,  64,  64,
       240, 144, 240, 144, 240,
       240, 144, 240,  16, 240,
       240, 144, 240, 144, 144,
       224, 144, 224, 144, 224,
       240, 128, 128, 128, 240,
       224, 144, 144, 144, 224,
       240, 128, 240, 128, 240,
       240, 128, 240, 128, 128 >>

VARIABLES memory, pc, v_reg, i_reg, delay_timer, sound_timer, stack,
          stack_pointer, keypad, screen, draw_flag, rng,
          wait_for_key_release, panic, opcode, instruction

vars == << memory, pc, v_reg, i_reg, delay_timer, sound_timer, stack,
           stack_pointer, keypad, screen, draw_flag, rng,
           wait_for_key_release, panic, opcode, instruction >>

\* the fields of the struct Chip8, without the locals of tick
fields == << memory, pc, v_reg, i_reg, delay_timer, sound_timer, stack,
             stack_pointer, keypad, screen, draw_flag, rng,
             wait_for_key_release >>

----------------------------------------------------------------------------
\* Bit operations of u8 / u16 values

RECURSIVE BitAnd(_, _)
BitAnd(a, b) ==
    IF a = 0 \/ b = 0 THEN 0
    ELSE (a % 2) * (b % 2) + 2 * BitAnd(a \div 2, b \div 2)

RECURSIVE BitOr(_, _)
BitOr(a, b) ==
    IF a = 0 THEN b
    ELSE IF b = 0 THEN a
    ELSE (IF a % 2 = 1 \/ b % 2 = 1 THEN 1 ELSE 0) + 2 * BitOr(a \div 2, b \div 2)

RECURSIVE BitXor(_, _)
BitXor(a, b) ==
    IF a = 0 THEN b
    ELSE IF b = 0 THEN a
    ELSE (((a % 2) + (b % 2)) % 2) + 2 * BitXor(a \div 2, b \div 2)

RECURSIVE Shr(_, _)
Shr(a, k) == IF k = 0 THEN a ELSE Shr(a \div 2, k - 1)

RECURSIVE Shl(_, _)
Shl(a, k) == IF k = 0 THEN a ELSE Shl(a * 2, k - 1)

----------------------------------------------------------------------------
\* memory: [u8; MEMORY_SIZE], kept as the map of its non-zero cells

Load(mem, a) == IF a \in DOMAIN mem THEN mem[a] ELSE 0

Store(mem, a, v) ==
    IF v = 0
    THEN [b \in (DOMAIN mem) \ {a} |-> mem[b]]
    ELSE [b \in (DOMAIN mem) \cup {a} |-> IF b = a THEN v ELSE mem[b]]

ZeroMemory == [b \in {} |-> 0]

\* memory[start .. start + Len(buf)].copy_from_slice(buf)
CopyFromSlice(mem, start, buf) ==
    LET covered == start .. (start + Len(buf) - 1)
        nonzero == {a \in covered : buf[a - start + 1] # 0}
    IN  [a \in ((DOMAIN mem) \ covered) \cup nonzero |->
            IF a \in covered THEN buf[a - start + 1] ELSE mem[a]]

None == << "None" >>
Some(k) == << "Some", k >>
Ok(t) == << "Ok", t >>
Err(e) == << "Err", e >>

----------------------------------------------------------------------------
\* instruction.rs

nibbles(op) ==
    << Shr(BitAnd(op, 61440), 12),
       Shr(BitAnd(op, 3840), 8),
       Shr(BitAnd(op, 240), 4),
       BitAnd(op, 15) >>

nnn(op) == BitAnd(op, 4095)

nn(op) == BitAnd(op, 255)

UnknownOpcode(op) == << "UnknownOpcode", op >>


\* the wildcard _ of a match pattern
W == -1

\* a decoder that looks at the first and the last nibble only
matches_ends(ns, pat) ==
    /\ ns[1] = pat[1]
    /\ pat[4] = W \/ ns[4] = pat[4]

\* the tuple ns matches the pattern pat: each nibble is equal or a wildcard
matches(ns, pat) == \A k \in 1 .. 4 : pat[k] = W \/ ns[k] = pat[k]

\* impl TryFrom<u16> for Instruction
try_from(op) ==
    LET ns == nibbles(op)
        n2 == ns[2]
        n3 == ns[3]
        n4 == ns[4]
    IN  CASE matches(ns, << 0, 0, 14, 0 >>) -> Ok(<< "Ins00E0" >>)
          [] matches(ns, << 0, 0, 14, 14 >>) -> Ok(<< "Ins00EE" >>)
          [] matches(ns, << 1, W, W, W >>) -> Ok(<< "Ins1NNN", nnn(op) >>)
          [] matches(ns, << 2, W, W, W >>) -> Ok(<< "Ins2NNN", nnn(op) >>)
          [] matches(ns, << 3, W, W, W >>) -> Ok(<< "Ins3XNN", n2, nn(op) >>)
          [] matches(ns, << 4, W, W, W >>) -> Ok(<< "Ins4XNN", n2, nn(op) >>)
          [] matches(ns, << 5, W, W, 0 >>) -> Ok(<< "Ins5XY0", n2, n3 >>)
          [] matches(ns, << 6, W, W, W >>) -> Ok(<< "Ins6XNN", n2, nn(op) >>)
          [] matches(ns, << 7, W, W, W >>) -> Ok(<< "Ins7XNN", n2, nn(op) >>)
          [] matches(ns, << 8, W, W, 0 >>) -> Ok(<< "Ins8XY0", n2, n3 >>)
          [] matches(ns, << 8, W, W, 1 >>) -> Ok(<< "Ins8XY1", n2, n3 >>)
          [] matches(ns, << 8, W, W, 2 >>) -> Ok(<< "Ins8XY2", n2, n3 >>)
          [] matches(ns, << 8, W, W, 3 >>) -> Ok(<< "Ins8XY3", n2, n3 >>)
          [] matches(ns, << 8, W, W, 4 >>) -> Ok(<< "Ins8XY4", n2, n3 >>)
          [] matches(ns, << 8, W, W, 5 >>) -> Ok(<< "Ins8XY5", n2, n3 >>)
          [] matches(ns, << 8, W, W, 6 >>) -> Ok(<< "Ins8XY6", n2, n3 >>)
          [] matches(ns, << 8, W, W, 7 >>) -> Ok(<< "Ins8XY7", n2, n3 >>)
          [] matches(ns, << 8, W, W, 14 >>) -> Ok(<< "Ins8XYE", n2, n3 >>)
          [] matches(ns, << 9, W, W, 0 >>) -> Ok(<< "Ins9XY0", n2, n3 >>)
          [] matches(ns, << 10, W, W, W >>) -> Ok(<< "InsANNN", nnn(op) >>)
          [] matches(ns, << 11, W, W, W >>) -> Ok(<< "InsBNNN", nnn(op) >>)
          [] matches(ns, << 12, W, W, W >>) -> Ok(<< "InsCXNN", n2, nn(op) >>)
          [] matches(ns, << 13, W, W, W >>) -> Ok(<< "InsDXYN", n2, n3, n4 >>)
          [] matches(ns, << 14, W, 9, 14 >>) -> Ok(<< "InsEX9E", n2 >>)
          [] matches(ns, << 14, W, 10, 1 >>) -> Ok(<< "InsEXA1", n2 >>)
          [] matches(ns, << 15, W, 0, 7 >>) -> Ok(<< "InsFX07", n2 >>)
          [] matches(ns, << 15, W, 0, 10 >>) -> Ok(<< "InsFX0A", n2 >>)
          [] matches(ns, << 15, W, 1, 5 >>) -> Ok(<< "InsFX15", n2 >>)
          [] matches(ns, << 15, W, 1, 8 >>) -> Ok(<< "InsFX18", n2 >>)
          [] matches(ns, << 15, W, 1, 14 >>) -> Ok(<< "InsFX1E", n2 >>)
          [] matches(ns, << 15, W, 2, 9 >>) -> Ok(<< "InsFX29", n2 >>)
          [] matches(ns, << 15, W, 3, 3 >>) -> Ok(<< "InsFX33", n2 >>)
          [] matches(ns, << 15, W, 5, 5 >>) -> Ok(<< "InsFX55", n2 >>)
          [] matches(ns, << 15, W, 6, 5 >>) -> Ok(<< "InsFX65", n2 >>)
          [] OTHER -> Err(UnknownOpcode(op))

----------------------------------------------------------------------------
\* rng.rs

\* next with a saturating multiplication in place of wrapping_mul
next_saturating(seed) ==
    LET product == IF LCG_A * seed >= U16 THEN U16 - 1 ELSE LCG_A * seed
    IN  (product + LCG_C) % U16

\* LinearCongruentialGenerator::next: the new seed, which is also the value
\* returned (Some(seed))
next(seed) == (((LCG_A * seed) % U16) + LCG_C) % U16

----------------------------------------------------------------------------
\* chip8.rs: the struct Chip8 as a record, panic added

\* the panics of the core
PanicIndex == "index out of bounds"
PanicOverflow == "arithmetic overflow"
PanicStack == "2NNN failure, stack overflow"
PanicSlice == "range end index out of range for slice"

Machine ==
    [ memory |-> memory, pc |-> pc, v_reg |-> v_reg, i_reg |-> i_reg,
      delay_timer |-> delay_timer, sound_timer |-> sound_timer,
      stack |-> stack, stack_pointer |-> stack_pointer, keypad |-> keypad,
      screen |-> screen, draw_flag |-> draw_flag, rng |-> rng,
      wait_for_key_release |-> wait_for_key_release, panic |-> panic ]

\* Chip8::new
new(r) ==
    [ memory |-> ZeroMemory,
      pc |-> PROGRAM_START,
      v_reg |-> [i \in 0 .. NUM_REGISTERS - 1 |-> 0],
      i_reg |-> 0,
      delay_timer |-> 0,
      sound_timer |-> 0,
      stack |-> [i \in 0 .. STACK_SIZE - 1 |-> 0],
      stack_pointer |-> 0,
      keypad |-> [i \in 0 .. KEYPAD_SIZE - 1 |-> FALSE],
      screen |-> {},
      draw_flag |-> FALSE,
      rng |-> r,
      wait_for_key_release |-> None,
      panic |-> "none" ]

\* Chip8::load_fontset
load_fontset(m) ==
    [m EXCEPT !.memory = CopyFromSlice(m.memory, 0, FONTSET)]

\* load_rom into a cleared memory
load_rom_cleared(m, buf) ==
    LET rom_end == ROM_START + Len(buf)
    IN  IF rom_end > MEMORY_SIZE
        THEN [m EXCEPT !.panic = PanicSlice]
        ELSE [m EXCEPT !.memory = CopyFromSlice(ZeroMemory, ROM_START, buf)]

\* Chip8::load_rom: the slice memory[ROM_START..rom_end] must lie in memory
load_rom(m, buf) ==
    LET rom_end == ROM_START + Len(buf)
    IN  IF rom_end > MEMORY_SIZE
        THEN [m EXCEPT !.panic = PanicSlice]
        ELSE [m EXCEPT !.memory = CopyFromSlice(m.memory, ROM_START, buf)]

\* u8::saturating_sub
saturating_sub(a, b) == IF a - b < 0 THEN 0 ELSE a - b

\* tick_timer with wrapping_sub in place of saturating_sub
tick_timer_wrapping(m) ==
    [m EXCEPT !.delay_timer = (m.delay_timer - 1) % U8,
              !.sound_timer = (m.sound_timer - 1) % U8]

\* Chip8::tick_timer
tick_timer(m) ==
    [m EXCEPT !.delay_timer = saturating_sub(m.delay_timer, 1),
              !.sound_timer = saturating_sub(m.sound_timer, 1)]

\* Chip8::keypress: idx is a usize, keypad[idx] is bounds-checked
keypress(m, idx, pressed) ==
    IF idx >= KEYPAD_SIZE
    THEN [m EXCEPT !.panic = PanicIndex]
    ELSE [m EXCEPT !.keypad[idx] = pressed]

\* fetch_opcode reading the opcode low byte first
fetch_opcode_le(m, overflow_checks) ==
    IF m.pc >= MEMORY_SIZE \/ m.pc + 1 >= MEMORY_SIZE
    THEN [m |-> [m EXCEPT !.panic = PanicIndex], opcode |-> 0]
    ELSE [m |-> [m EXCEPT !.pc = m.pc + 2],
          opcode |-> Load(m.memory, m.pc + 1) * 256 + Load(m.memory, m.pc)]

\* fetch_opcode with addresses wrapped into memory
fetch_opcode_wrapping(m, overflow_checks) ==
    [m |-> [m EXCEPT !.pc = (m.pc + 2) % U16],
     opcode |-> Load(m.memory, m.pc % MEMORY_SIZE) * 256
                + Load(m.memory, (m.pc + 1) % MEMORY_SIZE)]

\* Chip8::fetch_opcode: the machine after the fetch and the opcode fetched
fetch_opcode(m, overflow_checks) ==
    IF m.pc >= MEMORY_SIZE \/ m.pc + 1 >= MEMORY_SIZE
    THEN [m |-> [m EXCEPT !.panic = PanicIndex], opcode |-> 0]
    ELSE LET high_byte == Load(m.memory, m.pc)
             low_byte == Load(m.memory, m.pc + 1)
             word == BitOr(Shl(high_byte, 8), low_byte)
         IN  IF m.pc + 2 >= U16 /\ overflow_checks
             THEN [m |-> [m EXCEPT !.panic = PanicOverflow], opcode |-> word]
             ELSE [m |-> [m EXCEPT !.pc = (m.pc + 2) % U16], opcode |-> word]

\* reset restoring the default seed as well
reset_reseeded(m) ==
    [m EXCEPT !.pc = PROGRAM_START,
              !.memory = CopyFromSlice(ZeroMemory, 0, FONTSET),
              !.screen = {},
              !.v_reg = [i \in 0 .. NUM_REGISTERS - 1 |-> 0],
              !.i_reg = 0,
              !.stack_pointer = 0,
              !.stack = [i \in 0 .. STACK_SIZE - 1 |-> 0],
              !.keypad = [i \in 0 .. KEYPAD_SIZE - 1 |-> FALSE],
              !.delay_timer = 0,
              !.sound_timer = 0,
              !.draw_flag = FALSE,
              !.rng = DEFAULT_SEED]

\* Chip8::reset
reset(m) ==
    [m EXCEPT !.pc = PROGRAM_START,
              !.memory = CopyFromSlice(ZeroMemory, 0, FONTSET),
              !.screen = {},
              !.v_reg = [i \in 0 .. NUM_REGISTERS - 1 |-> 0],
              !.i_reg = 0,
              !.stack_pointer = 0,
              !.stack = [i \in 0 .. STACK_SIZE - 1 |-> 0],
              !.keypad = [i \in 0 .. KEYPAD_SIZE - 1 |-> FALSE],
              !.delay_timer = 0,
              !.sound_timer = 0,
              !.draw_flag = FALSE]

----------------------------------------------------------------------------
\* chip8.rs: execute_instruction

\* a skip over one byte instead of one instruction
skip_byte(m, overflow_checks) ==
    IF m.pc + 1 >= U16 /\ overflow_checks
    THEN [m EXCEPT !.panic = PanicOverflow]
    ELSE [m EXCEPT !.pc = (m.pc + 1) % U16]

\* self.pc += 2 (u16)
skip(m, overflow_checks) ==
    IF m.pc + 2 >= U16 /\ overflow_checks
    THEN [m EXCEPT !.panic = PanicOverflow]
    ELSE [m EXCEPT !.pc = (m.pc + 2) % U16]

\* Ins00EE: self.stack_pointer -= 1; self.pc = self.stack[self.stack_pointer]
exec_00EE(m, overflow_checks) ==
    IF m.stack_pointer = 0 /\ overflow_checks
    THEN [m EXCEPT !.panic = PanicOverflow]
    ELSE LET sp == (m.stack_pointer - 1) % U16
         IN  IF sp >= STACK_SIZE
             THEN [m EXCEPT !.stack_pointer = sp, !.panic = PanicIndex]
             ELSE [m EXCEPT !.stack_pointer = sp, !.pc = m.stack[sp]]

\* Ins2NNN pushing the address of the call itself
exec_2NNN_self(m, addr) ==
    IF m.stack_pointer >= STACK_SIZE
    THEN [m EXCEPT !.panic = PanicStack]
    ELSE [m EXCEPT !.stack[m.stack_pointer] = m.pc - 2,
                   !.stack_pointer = m.stack_pointer + 1,
                   !.pc = addr]

\* Ins2NNN
exec_2NNN(m, addr) ==
    IF m.stack_pointer >= STACK_SIZE
    THEN [m EXCEPT !.panic = PanicStack]
    ELSE [m EXCEPT !.stack[m.stack_pointer] = m.pc,
                   !.stack_pointer = m.stack_pointer + 1,
                   !.pc = addr]

\* u8::overflowing_add: << result, carry >>
overflowing_add(a, b) == << (a + b) % U8, a + b >= U8 >>

\* u8::overflowing_sub: << result, borrow >>
overflowing_sub(a, b) == << (a - b) % U8, a < b >>

\* bool as u8
as_u8(b) == IF b THEN 1 ELSE 0

\* Ins8XY4
exec_8XY4(m, x, y) ==
    LET r == overflowing_add(m.v_reg[x], m.v_reg[y])
        v1 == [m.v_reg EXCEPT ![x] = r[1]]
    IN  [m EXCEPT !.v_reg = [v1 EXCEPT ![15] = as_u8(r[2])]]

\* Ins8XY5 with the flag set on a borrow
exec_8XY5_borrow(m, x, y) ==
    LET r == overflowing_sub(m.v_reg[x], m.v_reg[y])
        v1 == [m.v_reg EXCEPT ![x] = r[1]]
    IN  [m EXCEPT !.v_reg = [v1 EXCEPT ![15] = as_u8(r[2])]]

\* Ins8XY5
exec_8XY5(m, x, y) ==
    LET r == overflowing_sub(m.v_reg[x], m.v_reg[y])
        v1 == [m.v_reg EXCEPT ![x] = r[1]]
    IN  [m EXCEPT !.v_reg = [v1 EXCEPT ![15] = as_u8(~r[2])]]

\* Ins8XY7
exec_8XY7(m, x, y) ==
    LET r == overflowing_sub(m.v_reg[y], m.v_reg[x])
        v1 == [m.v_reg EXCEPT ![x] = r[1]]
    IN  [m EXCEPT !.v_reg = [v1 EXCEPT ![15] = as_u8(~r[2])]]

\* Ins8XY1, Ins8XY2, Ins8XY3 leaving VF as it was
exec_logic_keep(m, x, res) ==
    [m EXCEPT !.v_reg[x] = res]

\* Ins8XY1, Ins8XY2, Ins8XY3: the result, then VF = 0
exec_logic(m, x, res) ==
    LET v1 == [m.v_reg EXCEPT ![x] = res]
    IN  [m EXCEPT !.v_reg = [v1 EXCEPT ![15] = 0]]

\* Ins8XY6 shifting VX in place, VY not copied
exec_8XY6_inplace(m, x, y) ==
    LET dropped == BitAnd(m.v_reg[x], 1)
        v2 == [m.v_reg EXCEPT ![x] = Shr(m.v_reg[x], 1)]
    IN  [m EXCEPT !.v_reg = [v2 EXCEPT ![15] = dropped]]

\* Ins8XY6
exec_8XY6(m, x, y) ==
    LET v1 == [m.v_reg EXCEPT ![x] = m.v_reg[y]]
        dropped == BitAnd(v1[x], 1)
        v2 == [v1 EXCEPT ![x] = Shr(v1[x], 1)]
    IN  [m EXCEPT !.v_reg = [v2 EXCEPT ![15] = dropped]]

\* Ins8XYE
exec_8XYE(m, x, y) ==
    LET v1 == [m.v_reg EXCEPT ![x] = m.v_reg[y]]
        dropped == Shr(v1[x], 7)
        v2 == [v1 EXCEPT ![x] = Shl(v1[x], 1) % U8]
    IN  [m EXCEPT !.v_reg = [v2 EXCEPT ![15] = dropped]]

\* InsCXNN: random as u8 & nn
exec_CXNN(m, x, imm) ==
    LET random == next(m.rng)
    IN  [m EXCEPT !.rng = random,
                  !.v_reg[x] = BitAnd(random % U8, imm)]

\* the inner loop of InsDXYN reporting a collision on every lit cell it
\* passes, whatever the sprite bit
RECURSIVE draw_cols_lit(_, _, _, _, _)
draw_cols_lit(m, sprite_row, vx, screen_y, col) ==
    IF col >= 8 THEN m
    ELSE LET screen_x == vx + col
         IN  IF screen_x >= SCREEN_WIDTH THEN m
             ELSE LET sprite_pixel == BitAnd(sprite_row, Shr(128, col)) # 0
                      screen_pixel_index == screen_x + screen_y * SCREEN_WIDTH
                      screen_pixel == screen_pixel_index \in m.screen
                      m1 == IF screen_pixel
                            THEN [m EXCEPT !.v_reg[15] = 1]
                            ELSE m
                      m2 == [m1 EXCEPT !.screen =
                                IF sprite_pixel = screen_pixel
                                THEN m1.screen \ {screen_pixel_index}
                                ELSE m1.screen \cup {screen_pixel_index}]
                  IN  draw_cols_lit(m2, sprite_row, vx, screen_y, col + 1)

\* the inner loop of InsDXYN with |= in place of ^=
RECURSIVE draw_cols_or(_, _, _, _, _)
draw_cols_or(m, sprite_row, vx, screen_y, col) ==
    IF col >= 8 THEN m
    ELSE LET screen_x == vx + col
         IN  IF screen_x >= SCREEN_WIDTH THEN m
             ELSE LET sprite_pixel == BitAnd(sprite_row, Shr(128, col)) # 0
                      screen_pixel_index == screen_x + screen_y * SCREEN_WIDTH
                      screen_pixel == screen_pixel_index \in m.screen
                      m1 == IF sprite_pixel /\ screen_pixel
                            THEN [m EXCEPT !.v_reg[15] = 1]
                            ELSE m
                      m2 == [m1 EXCEPT !.screen =
                                IF sprite_pixel
                                THEN m1.screen \cup {screen_pixel_index}
                                ELSE m1.screen]
                  IN  draw_cols_or(m2, sprite_row, vx, screen_y, col + 1)

\* the inner loop of InsDXYN wrapping to the left edge instead of stopping
RECURSIVE draw_cols_wrap(_, _, _, _, _)
draw_cols_wrap(m, sprite_row, vx, screen_y, col) ==
    IF col >= 8 THEN m
    ELSE LET screen_x == (vx + col) % SCREEN_WIDTH
             sprite_pixel == BitAnd(sprite_row, Shr(128, col)) # 0
             screen_pixel_index == screen_x + screen_y * SCREEN_WIDTH
             screen_pixel == screen_pixel_index \in m.screen
             m1 == IF sprite_pixel /\ screen_pixel
                   THEN [m EXCEPT !.v_reg[15] = 1]
                   ELSE m
             m2 == [m1 EXCEPT !.screen =
                       IF sprite_pixel = screen_pixel
                       THEN m1.screen \ {screen_pixel_index}
                       ELSE m1.screen \cup {screen_pixel_index}]
         IN  draw_cols_wrap(m2, sprite_row, vx, screen_y, col + 1)

\* InsDXYN, the inner loop: for col in col..8
RECURSIVE draw_cols(_, _, _, _, _)
draw_cols(m, sprite_row, vx, screen_y, col) ==
    IF col >= 8 THEN m
    ELSE LET screen_x == vx + col
         IN  IF screen_x >= SCREEN_WIDTH THEN m
             ELSE LET sprite_pixel == BitAnd(sprite_row, Shr(128, col)) # 0
                      screen_pixel_index == screen_x + screen_y * SCREEN_WIDTH
                      screen_pixel == screen_pixel_index \in m.screen
                      m1 == IF sprite_pixel /\ screen_pixel
                            THEN [m EXCEPT !.v_reg[15] = 1]
                            ELSE m
                      m2 == [m1 EXCEPT !.screen =
                                IF sprite_pixel = screen_pixel
                                THEN m1.screen \ {screen_pixel_index}
                                ELSE m1.screen \cup {screen_pixel_index}]
                  IN  draw_cols(m2, sprite_row, vx, screen_y, col + 1)

\* InsDXYN, the outer loop: for row in row..n
RECURSIVE draw_rows(_, _, _, _, _, _)
draw_rows(m, vx, vy, n, row, overflow_checks) ==
    IF row >= n THEN m
    ELSE LET screen_y == vy + row
         IN  IF screen_y >= SCREEN_HEIGHT THEN m
             ELSE IF m.i_reg + row >= U16 /\ overflow_checks
             THEN [m EXCEPT !.panic = PanicOverflow]
             ELSE LET addr == (m.i_reg + row) % U16
                  IN  IF addr >= MEMORY_SIZE
                      THEN [m EXCEPT !.panic = PanicIndex]
                      ELSE LET sprite_row == Load(m.memory, addr)
                               m1 == draw_cols(m, sprite_row, vx, screen_y, 0)
                           IN  draw_rows([m1 EXCEPT !.draw_flag = TRUE],
                                         vx, vy, n, row + 1, overflow_checks)

\* InsDXYN drawing without raising draw_flag
exec_DXYN_quiet(m, x, y, n, overflow_checks) ==
    LET vx == m.v_reg[x] % SCREEN_WIDTH
        vy == m.v_reg[y] % SCREEN_HEIGHT
        drawn == draw_rows([m EXCEPT !.v_reg[15] = 0], vx, vy, n, 0,
                           overflow_checks)
    IN  [drawn EXCEPT !.draw_flag = m.draw_flag]

\* InsDXYN
exec_DXYN(m, x, y, n, overflow_checks) ==
    LET vx == m.v_reg[x] % SCREEN_WIDTH
        vy == m.v_reg[y] % SCREEN_HEIGHT
    IN  draw_rows([m EXCEPT !.v_reg[15] = 0], vx, vy, n, 0, overflow_checks)

\* InsEX9E (want = TRUE), InsEXA1 (want = FALSE): keypad[VX] is bounds-checked
exec_key_skip(m, x, want, overflow_checks) ==
    IF m.v_reg[x] >= KEYPAD_SIZE
    THEN [m EXCEPT !.panic = PanicIndex]
    ELSE IF m.keypad[m.v_reg[x]] = want
         THEN skip(m, overflow_checks)
         ELSE m

\* InsFX0A without the break: the last pressed key wins
exec_FX0A_last(m, x, overflow_checks) ==
    LET down == {k \in 0 .. KEYPAD_SIZE - 1 : m.keypad[k]}
    IN  IF down # {}
        THEN LET key_code == CHOOSE k \in down : \A j \in down : k >= j
             IN  [m EXCEPT !.wait_for_key_release = Some(key_code),
                           !.v_reg[x] = key_code]
        ELSE [m EXCEPT !.pc = (m.pc - 2) % U16]

\* InsFX0A completing only when the latched key has been released
exec_FX0A_release(m, x, overflow_checks) ==
    LET down == {k \in 0 .. KEYPAD_SIZE - 1 : m.keypad[k]}
        rewound == [m EXCEPT !.pc = (m.pc - 2) % U16]
    IN  IF m.wait_for_key_release # None
        THEN IF m.wait_for_key_release[2] \in down
             THEN rewound
             ELSE [m EXCEPT !.v_reg[x] = m.wait_for_key_release[2],
                            !.wait_for_key_release = None]
        ELSE IF down # {}
             THEN [rewound EXCEPT !.wait_for_key_release =
                      Some(CHOOSE k \in down : \A j \in down : k <= j)]
             ELSE rewound

\* InsFX0A: the first pressed key in index order, or the rewind
exec_FX0A(m, x, overflow_checks) ==
    LET down == {k \in 0 .. KEYPAD_SIZE - 1 : m.keypad[k]}
    IN  IF down # {}
        THEN LET key_code == CHOOSE k \in down : \A j \in down : k <= j
             IN  [m EXCEPT !.wait_for_key_release = Some(key_code),
                           !.v_reg[x] = key_code]
        ELSE IF m.pc < 2 /\ overflow_checks
             THEN [m EXCEPT !.panic = PanicOverflow]
             ELSE [m EXCEPT !.pc = (m.pc - 2) % U16]

\* InsFX33: three bounds-checked writes, in order
exec_FX33(m, x) ==
    LET hundreds == m.v_reg[x] \div 100
        tens == (m.v_reg[x] \div 10) % 10
        units == m.v_reg[x] % 10
    IN  IF m.i_reg >= MEMORY_SIZE
        THEN [m EXCEPT !.panic = PanicIndex]
        ELSE LET mem1 == Store(m.memory, m.i_reg, hundreds)
             IN  IF m.i_reg + 1 >= MEMORY_SIZE
                 THEN [m EXCEPT !.memory = mem1, !.panic = PanicIndex]
                 ELSE LET mem2 == Store(mem1, m.i_reg + 1, tens)
                      IN  IF m.i_reg + 2 >= MEMORY_SIZE
                          THEN [m EXCEPT !.memory = mem2, !.panic = PanicIndex]
                          ELSE [m EXCEPT !.memory =
                                    Store(mem2, m.i_reg + 2, units)]

\* self.i_reg += x as u16: the index register left at the last byte used
advance_i_short(m, x, overflow_checks) ==
    IF m.i_reg + x >= U16 /\ overflow_checks
    THEN [m EXCEPT !.panic = PanicOverflow]
    ELSE [m EXCEPT !.i_reg = (m.i_reg + x) % U16]

\* self.i_reg += x as u16 + 1
advance_i(m, x, overflow_checks) ==
    IF m.i_reg + x + 1 >= U16 /\ overflow_checks
    THEN [m EXCEPT !.panic = PanicOverflow]
    ELSE [m EXCEPT !.i_reg = (m.i_reg + x + 1) % U16]

\* InsFX55, the loop: for i in i..=x
RECURSIVE store_regs(_, _, _, _)
store_regs(m, x, i, overflow_checks) ==
    IF i > x THEN advance_i(m, x, overflow_checks)
    ELSE IF m.i_reg + i >= U16 /\ overflow_checks
    THEN [m EXCEPT !.panic = PanicOverflow]
    ELSE LET addr == (m.i_reg + i) % U16
         IN  IF addr >= MEMORY_SIZE
             THEN [m EXCEPT !.panic = PanicIndex]
             ELSE store_regs([m EXCEPT !.memory = Store(m.memory, addr, m.v_reg[i])],
                             x, i + 1, overflow_checks)

\* InsFX65 with the assignment of InsFX55: registers stored, not loaded
load_regs_swapped(m, x, i, overflow_checks) ==
    store_regs(m, x, i, overflow_checks)

\* InsFX65, the loop: for i in i..=x
RECURSIVE load_regs(_, _, _, _)
load_regs(m, x, i, overflow_checks) ==
    IF i > x THEN advance_i(m, x, overflow_checks)
    ELSE IF m.i_reg + i >= U16 /\ overflow_checks
    THEN [m EXCEPT !.panic = PanicOverflow]
    ELSE LET addr == (m.i_reg + i) % U16
         IN  IF addr >= MEMORY_SIZE
             THEN [m EXCEPT !.panic = PanicIndex]
             ELSE load_regs([m EXCEPT !.v_reg[i] = Load(m.memory, addr)],
                            x, i + 1, overflow_checks)

\* Chip8::execute_instruction
execute_instruction(m, ins, overflow_checks) ==
    LET op == ins[1]
        a == IF Len(ins) >= 2 THEN ins[2] ELSE 0
        b == IF Len(ins) >= 3 THEN ins[3] ELSE 0
        c == IF Len(ins) >= 4 THEN ins[4] ELSE 0
    IN  CASE op = "Ins00E0" -> [m EXCEPT !.screen = {}, !.draw_flag = TRUE]
          [] op = "Ins00EE" -> exec_00EE(m, overflow_checks)
          [] op = "Ins1NNN" -> [m EXCEPT !.pc = a]
          [] op = "Ins2NNN" -> exec_2NNN(m, a)
          [] op = "Ins3XNN" ->
                IF m.v_reg[a] = b THEN skip(m, overflow_checks) ELSE m
          [] op = "Ins4XNN" ->
                IF m.v_reg[a] # b THEN skip(m, overflow_checks) ELSE m
          [] op = "Ins5XY0" ->
                IF m.v_reg[a] = m.v_reg[b] THEN skip(m, overflow_checks) ELSE m
          [] op = "Ins6XNN" -> [m EXCEPT !.v_reg[a] = b]
          [] op = "Ins7XNN" -> [m EXCEPT !.v_reg[a] = (m.v_reg[a] + b) % U8]
          [] op = "Ins8XY0" -> [m EXCEPT !.v_reg[a] = m.v_reg[b]]
          [] op = "Ins8XY1" -> exec_logic(m, a, BitOr(m.v_reg[a], m.v_reg[b]))
          [] op = "Ins8XY2" -> exec_logic(m, a, BitAnd(m.v_reg[a], m.v_reg[b]))
          [] op = "Ins8XY3" -> exec_logic(m, a, BitXor(m.v_reg[a], m.v_reg[b]))
          [] op = "Ins8XY4" -> exec_8XY4(m, a, b)
          [] op = "Ins8XY5" -> exec_8XY5(m, a, b)
          [] op = "Ins8XY6" -> exec_8XY6(m, a, b)
          [] op = "Ins8XY7" -> exec_8XY7(m, a, b)
          [] op = "Ins8XYE" -> exec_8XYE(m, a, b)
          [] op = "Ins9XY0" ->
                IF m.v_reg[a] # m.v_reg[b] THEN skip(m, overflow_checks) ELSE m
          [] op = "InsANNN" -> [m EXCEPT !.i_reg = a]
          [] op = "InsBNNN" -> [m EXCEPT !.pc = m.v_reg[0] + a]
          [] op = "InsCXNN" -> exec_CXNN(m, a, b)
          [] op = "InsDXYN" -> exec_DXYN(m, a, b, c, overflow_checks)
          [] op = "InsEX9E" -> exec_key_skip(m, a, TRUE, overflow_checks)
          [] op = "InsEXA1" -> exec_key_skip(m, a, FALSE, overflow_checks)
          [] op = "InsFX07" -> [m EXCEPT !.v_reg[a] = m.delay_timer]
          [] op = "InsFX0A" -> exec_FX0A(m, a, overflow_checks)
          [] op = "InsFX15" -> [m EXCEPT !.delay_timer = m.v_reg[a]]
          [] op = "InsFX18" -> [m EXCEPT !.sound_timer = m.v_reg[a]]
          [] op = "InsFX1E" -> [m EXCEPT !.i_reg = (m.i_reg + m.v_reg[a]) % U16]
          [] op = "InsFX29" -> [m EXCEPT !.i_reg = m.v_reg[a] * 5]
          [] op = "InsFX33" -> exec_FX33(m, a)
          [] op = "InsFX55" -> store_regs(m, a, 0, overflow_checks)
          [] op = "InsFX65" -> load_regs(m, a, 0, overflow_checks)

\* tick counting the timers down after the instruction
tick_timed(m, overflow_checks) ==
    CHOOSE t \in
        { IF f.m.panic # "none"
          THEN [m |-> f.m, opcode |-> opcode, instruction |-> instruction]
          ELSE CHOOSE u \in
                  { IF ins[1] = "Err"
                    THEN [m |-> f.m, opcode |-> f.opcode, instruction |-> ins]
                    ELSE [m |-> tick_timer(execute_instruction(
                                    f.m, ins[2], overflow_checks)),
                          opcode |-> f.opcode, instruction |-> ins] :
                    ins \in {try_from(f.opcode)} } : TRUE :
          f \in {fetch_opcode(m, overflow_checks)} } : TRUE

\* Chip8::tick: the machine after the call, the opcode fetched and the
\* decoder's result (the call returns Err exactly when the decoder does);
\* f is the one result of the fetch and ins the one result of the decoder
tick(m, overflow_checks) ==
    CHOOSE t \in
        { IF f.m.panic # "none"
          THEN [m |-> f.m, opcode |-> opcode, instruction |-> instruction]
          ELSE CHOOSE u \in
                  { IF ins[1] = "Err"
                    THEN [m |-> f.m, opcode |-> f.opcode, instruction |-> ins]
                    ELSE [m |-> execute_instruction(f.m, ins[2],
                                                    overflow_checks),
                          opcode |-> f.opcode, instruction |-> ins] :
                    ins \in {try_from(f.opcode)} } : TRUE :
          f \in {fetch_opcode(m, overflow_checks)} } : TRUE

----------------------------------------------------------------------------
\* The host's calls as actions

\* the fields of the machine become those of record m
Becomes(m) ==
    /\ memory' = m.memory
    /\ pc' = m.pc
    /\ v_reg' = m.v_reg
    /\ i_reg' = m.i_reg
    /\ delay_timer' = m.delay_timer
    /\ sound_timer' = m.sound_timer
    /\ stack' = m.stack
    /\ stack_pointer' = m.stack_pointer
    /\ keypad' = m.keypad
    /\ screen' = m.screen
    /\ draw_flag' = m.draw_flag
    /\ rng' = m.rng
    /\ wait_for_key_release' = m.wait_for_key_release
    /\ panic' = m.panic

\* the fields of the machine are those of record m
Equals(m) ==
    /\ memory = m.memory
    /\ pc = m.pc
    /\ v_reg = m.v_reg
    /\ i_reg = m.i_reg
    /\ delay_timer = m.delay_timer
    /\ sound_timer = m.sound_timer
    /\ stack = m.stack
    /\ stack_pointer = m.stack_pointer
    /\ keypad = m.keypad
    /\ screen = m.screen
    /\ draw_flag = m.draw_flag
    /\ rng = m.rng
    /\ wait_for_key_release = m.wait_for_key_release
    /\ panic = m.panic

\* no instruction decoded yet
NotDecoded == << "NotDecoded" >>

\* c8.tick(), in a build with or without overflow checks
Tick ==
    /\ panic = "none"
    /\ \E overflow_checks \in BOOLEAN :
          \E t \in {tick(Machine, overflow_checks)} :
              /\ Becomes(t.m)
              /\ opcode' = t.opcode
              /\ instruction' = t.instruction

\* c8.tick_timer()
TickTimer ==
    /\ panic = "none"
    /\ Becomes(tick_timer(Machine))
    /\ UNCHANGED << opcode, instruction >>

\* c8.reset()
Reset ==
    /\ panic = "none"
    /\ Becomes(reset(Machine))
    /\ UNCHANGED << opcode, instruction >>

\* c8.load_fontset()
LoadFontset ==
    /\ panic = "none"
    /\ Becomes(load_fontset(Machine))
    /\ UNCHANGED << opcode, instruction >>

----------------------------------------------------------------------------
\* The host and its inputs

\* the keys the host presses and releases are 0 .. MaxKey
MaxKey == 1

Keys == 0 .. MaxKey

\* the opcode with nibbles a, b, c, d
H(a, b, c, d) == a * 4096 + b * 256 + c * 16 + d

\* a program image: the big-endian bytes of a sequence of opcodes
RECURSIVE Image(_)
Image(words) ==
    IF words = << >> THEN << >>
    ELSE << words[1] \div 256, words[1] % 256 >> \o Image(Tail(words))

\* 0x200 V0 := 3        0x202 call 0x208   0x204 call 0x20C
\* 0x206 (no opcode)    0x208 call 0x20C   0x20A return      0x20C return
RomNested ==
    Image(<< H(6,0,0,3), H(2,2,0,8), H(2,2,0,12), H(0,0,0,1),
             H(2,2,0,12), H(0,0,14,14), H(0,0,14,14) >>)

\* 0x200 call 0x200
RomRecursive == Image(<< H(2,2,0,0) >>)

\* 0x200 V0 := 3       0x202 delay := V0   0x204 V1 := 2
\* 0x206 sound := V1   0x208 V3 := delay   0x20A V2 := key
\* 0x20C (no opcode: 0x5CD1)               0x20E jump 0x20A
RomTimers ==
    Image(<< H(6,0,0,3), H(15,0,1,5), H(6,1,0,2), H(15,1,1,8),
             H(15,3,0,7), H(15,2,0,10), H(5,12,13,1), H(1,2,0,10) >>)

\* 0x200 V0 := 255   0x202 jump V0 + 0xFFF
RomJumpV0 == Image(<< H(6,0,15,15), H(11,15,15,15) >>)

\* 0x200 skip if V0 = 0   0x202 (skipped)   0x204 skip if V0 # 0
\* 0x206 skip if V0 = V1  0x208 (skipped)   0x20A jump 0xFFE
RomSkips ==
    Image(<< H(3,0,0,0), H(0,0,0,0), H(4,0,0,0), H(5,0,1,0),
             H(0,0,0,0), H(1,15,15,14) >>)

Roms == << RomNested, RomRecursive, RomTimers, RomJumpV0, RomSkips >>

\* the machine holds no program and stands at the entry point
Unloaded ==
    /\ pc = PROGRAM_START
    /\ \A a \in DOMAIN memory : a < ROM_START

\* c8.load_rom(&rom), for a machine that holds no program
LoadRom ==
    /\ panic = "none"
    /\ Unloaded
    /\ \E r \in 1 .. Len(Roms) : Becomes(load_rom(Machine, Roms[r]))
    /\ UNCHANGED << opcode, instruction >>

\* c8.keypress(idx, pressed)
Keypress ==
    /\ panic = "none"
    /\ \E idx \in Keys, pressed \in BOOLEAN :
          Becomes(keypress(Machine, idx, pressed))
    /\ UNCHANGED << opcode, instruction >>

\* Chip8::new(LinearCongruentialGenerator::default())
Init ==
    /\ Equals(new(DEFAULT_SEED))
    /\ opcode = 0
    /\ instruction = NotDecoded

Next == Tick \/ TickTimer \/ Keypress \/ Reset \/ LoadFontset \/ LoadRom

Spec == Init /\ [][Next]_vars

----------------------------------------------------------------------------
\* The decoder on every opcode: a machine holding the one opcode hi, lo at
\* the entry point, stepped once

DecodeInit ==
    /\ \E hi \in 0 .. U8 - 1, lo \in 0 .. U8 - 1 :
          Equals(load_rom(load_fontset(new(DEFAULT_SEED)), << hi, lo >>))
    /\ opcode = 0
    /\ instruction = NotDecoded

\* one call of tick
StepOnce ==
    /\ instruction = NotDecoded
    /\ Tick

DecodeNext == StepOnce

DecodeSpec == DecodeInit /\ [][DecodeNext]_vars

----------------------------------------------------------------------------
\* One instruction on a machine whose fields the host has set, as the tests
\* of chip8.rs do (c8.v_reg[0] = 0xFE; c8.i_reg = 0; c8.keypad[5] = true)

\* the 8-bit values tried: within Edge of 0, of 128 and of 255
Edge == 1

ByteVals ==
    {v \in 0 .. U8 - 1 :
        \/ v <= Edge
        \/ v >= U8 - 1 - Edge
        \/ (v >= 128 - Edge /\ v <= 127 + Edge)}

\* the registers named by the opcodes tried
RegSample == {0, 1, 15}

\* registers V0 = a, V1 = b, VF = f, the others 0
Regs(a, b, f) ==
    [i \in 0 .. NUM_REGISTERS - 1 |->
        CASE i = 0 -> a [] i = 1 -> b [] i = 15 -> f [] OTHER -> 0]

\* create_chip8() with the program words loaded
Loaded(words) == load_rom(load_fontset(new(DEFAULT_SEED)), Image(words))

\* 8XYk for every k of the table, on sampled register values
ArithInit ==
    /\ \E k \in {0, 1, 2, 3, 4, 5, 6, 7, 14}, x \in RegSample, y \in RegSample,
          a \in ByteVals, b \in ByteVals, f \in ByteVals :
          Equals([Loaded(<< H(8, x, y, k) >>) EXCEPT !.v_reg = Regs(a, b, f)])
    /\ opcode = 0
    /\ instruction = NotDecoded

ArithNext == StepOnce

ArithSpec == ArithInit /\ [][ArithNext]_vars

\* an opcode of every variant, with X = 0 and Y = 1, and jumps and calls to
\* even and odd addresses
ExecWords ==
    { H(0,0,14,0), H(0,0,14,14), H(1,3,0,0), H(1,3,0,1), H(2,3,0,0),
      H(2,3,0,1), H(11,15,15,14), H(3,0,0,0),
      H(4,0,0,0), H(5,0,1,0), H(6,0,1,2), H(7,0,15,15), H(8,0,1,0),
      H(8,0,1,1), H(8,0,1,2), H(8,0,1,3), H(8,0,1,4), H(8,0,1,5),
      H(8,0,1,6), H(8,0,1,7), H(8,0,1,14), H(9,0,1,0), H(10,3,0,0),
      H(11,15,15,15), H(12,0,15,15), H(13,0,1,3), H(14,0,9,14),
      H(14,0,10,1), H(15,0,0,7), H(15,0,0,10), H(15,0,1,5), H(15,0,1,8),
      H(15,0,1,14), H(15,0,2,9), H(15,0,3,3), H(15,1,5,5), H(15,1,6,5) }

\* index register values: the ends of the font, of memory and of the u16
\* range
IndexVals ==
    {0, FONTSET_SIZE - 2, FONTSET_SIZE - 1, FONTSET_SIZE,
     MEMORY_SIZE - 2, MEMORY_SIZE - 1, MEMORY_SIZE, U16 - 1}

\* every variant on sampled registers, index register and stack depth
ExecInit ==
    /\ \E w \in ExecWords, a \in ByteVals, b \in ByteVals, i \in IndexVals,
          d \in {0, 1, STACK_SIZE} :
          Equals([Loaded(<< w >>) EXCEPT !.v_reg = Regs(a, b, 0),
                                         !.i_reg = i,
                                         !.stack_pointer = d,
                                         !.stack = [j \in 0 .. STACK_SIZE - 1 |-> 768]])
    /\ opcode = 0
    /\ instruction = NotDecoded

ExecNext == StepOnce

ExecSpec == ExecInit /\ [][ExecNext]_vars

\* every variant on sampled values of V0 and of the two timers
TimerInit ==
    /\ \E w \in ExecWords, a \in ByteVals, dt \in {0, 3, U8 - 1},
          st \in {0, 7} :
          Equals([Loaded(<< w >>) EXCEPT !.v_reg = Regs(a, 1, 0),
                                         !.i_reg = 768,
                                         !.stack_pointer = 1,
                                         !.stack = [j \in 0 .. STACK_SIZE - 1 |-> 768],
                                         !.delay_timer = dt,
                                         !.sound_timer = st])
    /\ opcode = 0
    /\ instruction = NotDecoded

TimerNext == StepOnce

TimerSpec == TimerInit /\ [][TimerNext]_vars

\* the sprite heights tried are 0 .. MaxRows and 15
MaxRows == 2

\* DXYN twice, with X, Y among V0, V1, VF, at sampled coordinates, sprites
\* (glyph 0, glyph 1, zero bytes, the last byte of memory) and screens
DrawInit ==
    /\ \E n \in (0 .. MaxRows) \cup {15},
          xy \in {<< 0, 1 >>, << 15, 1 >>, << 0, 15 >>},
          a \in {0, 62, 70, 127}, b \in {0, 31, 33}, f \in {0, 1, 62},
          i \in {0, 5, 768, MEMORY_SIZE - 1},
          lit \in {{}, 0 .. 3, 0 .. (SCREEN_WIDTH * SCREEN_HEIGHT - 1)} :
          Equals([Loaded(<< H(13, xy[1], xy[2], n), H(13, xy[1], xy[2], n) >>)
                     EXCEPT !.v_reg = Regs(a, b, f),
                            !.i_reg = i,
                            !.screen = lit])
    /\ opcode = 0
    /\ instruction = NotDecoded

\* tick while pc is at one of the two instructions
DrawNext ==
    /\ pc < ROM_START + 4
    /\ Tick

DrawSpec == DrawInit /\ [][DrawNext]_vars

\* FX55, I := i, FX65 and FX65, I := i, FX55 with X among 0, 2, 15, the index
\* register inside and at the end of memory, bytes 17, 34, 0, 51 at i .. i + 3,
\* and V0, V1, V2 noted in V8, V9, V10
BulkInit ==
    /\ \E x \in {0, 2, 15}, i \in {768, MEMORY_SIZE - 16, MEMORY_SIZE - 3,
                                     MEMORY_SIZE - 1},
          a \in ByteVals, b \in ByteVals, first \in {85, 101} :
          LET m0 == Loaded(<< H(15, x, 0, 0) + first, H(10, 0, 0, 0) + i,
                              H(15, x, 0, 0) + (186 - first) >>)
              data == << 17, 34, 0, 51 >>
              cells == {k \in 1 .. 4 : i + k - 1 < MEMORY_SIZE}
              mem == [c \in (DOMAIN m0.memory)
                                \cup {i + k - 1 : k \in {j \in cells : data[j] # 0}} |->
                         IF c >= i THEN data[c - i + 1] ELSE m0.memory[c]]
          IN  Equals([m0 EXCEPT !.memory = mem,
                                !.i_reg = i,
                                !.v_reg = [r \in 0 .. NUM_REGISTERS - 1 |->
                                             CASE r \in {0, 8} -> a
                                               [] r \in {1, 9} -> b
                                               [] r \in {2, 10} -> 7
                                               [] OTHER -> r]])
    /\ opcode = 0
    /\ instruction = NotDecoded

\* tick while pc is at one of the three instructions
BulkStep ==
    /\ pc < ROM_START + 6
    /\ Tick

BulkNext == BulkStep

BulkSpec == BulkInit /\ [][BulkNext]_vars

\* an opcode of every variant and CXNN with further masks and registers
SeedWords == ExecWords \cup {H(12,0,0,15), H(12,1,10,5), H(12,15,3,12)}

\* one step of every opcode of SeedWords from sampled seeds, and every
\* other call of the host before and after it
SeedInit ==
    /\ \E w \in SeedWords, sd \in {DEFAULT_SEED, 0, 874, U16 - 1} :
          Equals([load_rom(load_fontset(new(sd)), Image(<< w >>))
                     EXCEPT !.v_reg = Regs(1, 2, 3),
                            !.i_reg = 768,
                            !.stack_pointer = 1,
                            !.stack = [j \in 0 .. STACK_SIZE - 1 |-> 768],
                            !.delay_timer = 1])
    /\ opcode = 0
    /\ instruction = NotDecoded

SeedNext ==
    StepOnce \/ TickTimer \/ Keypress \/ LoadFontset \/ LoadRom \/ Reset

SeedSpec == SeedInit /\ [][SeedNext]_vars

\* the displays tried: blank, four lit cells, all lit
Lits == << {}, 0 .. 3, 0 .. (SCREEN_WIDTH * SCREEN_HEIGHT - 1) >>

\* DXYN twice, with X, Y among V0, V1, VF; V2 notes which display of Lits
\* the machine starts with, V3 and V4 the values of VX and VY at the start
TwiceInit ==
    /\ \E n \in (0 .. MaxRows) \cup {15},
          xy \in {<< 0, 1 >>, << 15, 1 >>, << 0, 15 >>, << 15, 15 >>},
          a \in {0, 62, 70}, b \in {0, 31}, f \in {0, 1, 62},
          i \in {0, 5, 768}, lit \in 1 .. Len(Lits) :
          LET regs == Regs(a, b, f)
          IN  Equals([Loaded(<< H(13, xy[1], xy[2], n), H(13, xy[1], xy[2], n) >>)
                         EXCEPT !.v_reg = [regs EXCEPT ![2] = lit,
                                                       ![3] = regs[xy[1]],
                                                       ![4] = regs[xy[2]]],
                                !.i_reg = i,
                                !.screen = Lits[lit]])
    /\ opcode = 0
    /\ instruction = NotDecoded

TwiceNext == DrawNext

TwiceSpec == TwiceInit /\ [][TwiceNext]_vars

\* FX0A with X among V0, V2, VF, on sampled keypads and latches
KeyInit ==
    /\ \E x \in {0, 2, 15}, down \in {{}, {15}, {3, 15}, {1, 3}},
          latch \in {None, Some(9)}, t \in {0, 2} :
          Equals([Loaded(<< H(15, x, 0, 10) >>)
                     EXCEPT !.v_reg = Regs(7, 7, 7),
                            !.keypad = [k \in 0 .. KEYPAD_SIZE - 1 |-> k \in down],
                            !.wait_for_key_release = latch,
                            !.delay_timer = t])
    /\ opcode = 0
    /\ instruction = NotDecoded

\* tick while pc is at the FX0A
KeyStep ==
    /\ pc = PROGRAM_START
    /\ Tick

KeyNext == KeyStep \/ Keypress \/ TickTimer

KeySpec == KeyInit /\ [][KeyNext]_vars

\* FX0A followed by V1 := V1 + 1, with X among V0, VF, on sampled keypads
\* and timers; the host presses and releases keys, ticks the timers, and keeps
\* calling tick
WaitInit ==
    /\ \E x \in {0, 15}, down \in {{}, {1}, {0, 9}}, t \in {0, 2}, a \in {0, 7} :
          Equals([Loaded(<< H(15, x, 0, 10), H(7, 1, 0, 1) >>)
                     EXCEPT !.v_reg = Regs(a, 0, a),
                            !.keypad = [k \in 0 .. KEYPAD_SIZE - 1 |-> k \in down],
                            !.delay_timer = t])
    /\ opcode = 0
    /\ instruction = NotDecoded

\* tick while pc is at one of the two instructions
WaitStep ==
    /\ pc < ROM_START + 4
    /\ Tick

WaitNext == WaitStep \/ Keypress \/ TickTimer

WaitSpec == WaitInit /\ [][WaitNext]_vars /\ WF_vars(WaitStep)

\* the number of values drawn from the generator
MaxDraws == 3

\* the seeds tried: the default, the ends of the u16 range, the first seeds
\* whose product with LCG_A wraps, and every 1021st
SeedVals ==
    {DEFAULT_SEED, 1, 873, 874, 32767, 32768, U16 - 2, U16 - 1}
    \cup {sd \in 0 .. U16 - 1 : sd % 1021 = 0}

\* 0x200 V0 := random & 0xFF   0x202 V1 := V1 + 1
\* 0x204 skip if V1 = MaxDraws  0x206 jump 0x200
RomRandom ==
    Image(<< H(12,0,15,15), H(7,1,0,1), H(3,1,0,MaxDraws), H(1,2,0,0) >>)

\* Chip8::new(LinearCongruentialGenerator { seed: sd }), the seed noted in
\* V2 (high byte) and V3 (low byte)
RngInit ==
    /\ \E sd \in SeedVals :
          Equals([load_rom(load_fontset(new(sd)), RomRandom)
                     EXCEPT !.v_reg = [i \in 0 .. NUM_REGISTERS - 1 |->
                                          CASE i = 2 -> sd \div U8
                                            [] i = 3 -> sd % U8
                                            [] OTHER -> 0]])
    /\ opcode = 0
    /\ instruction = NotDecoded

\* tick while pc is in the program
RngStep ==
    /\ pc < ROM_START + 8
    /\ Tick

RngNext == RngStep

RngSpec == RngInit /\ [][RngNext]_vars

\* the longest program that fits, one byte more, and shorter ones
MaxRom ==
    [i \in 1 .. (MEMORY_SIZE - ROM_START) |->
        IF i = 1 \/ i = MEMORY_SIZE - ROM_START THEN 255 ELSE 0]

LoadBufs ==
    << << >>, << 18, 52, 86 >>, << 0, 0, 0, 0, 7 >>, RomNested, MaxRom,
       MaxRom \o << 1 >> >>

\* machines with and without the font, a byte at 300 and at 4095, a program
\* or none, and V0 = 0 or 255
LoadInit ==
    /\ \E a \in {0, 255}, font \in BOOLEAN, data \in BOOLEAN,
          prog \in {<< >>, RomTimers} :
          LET m0 == IF font THEN load_fontset(new(DEFAULT_SEED))
                    ELSE new(DEFAULT_SEED)
              m1 == IF data
                    THEN [m0 EXCEPT !.memory =
                             Store(Store(m0.memory, 300, 9), MEMORY_SIZE - 1, 7)]
                    ELSE m0
          IN  Equals([load_rom(m1, prog) EXCEPT !.v_reg = Regs(a, 1, 0),
                                                !.i_reg = 300])
    /\ opcode = 0
    /\ instruction = NotDecoded

\* c8.load_rom(&LoadBufs[r])
LoadRomOf(r) ==
    /\ panic = "none"
    /\ Becomes(load_rom(Machine, LoadBufs[r]))
    /\ UNCHANGED << opcode, instruction >>

LoadNext == \E r \in 1 .. Len(LoadBufs) : LoadRomOf(r)

LoadSpec == LoadInit /\ [][LoadNext]_vars

\* DXYN, 00E0, DXYN on sampled coordinates, sprites and screens, with the
\* host consuming frames and resetting the machine
ScreenInit ==
    /\ \E n \in (0 .. MaxRows) \cup {5},
          a \in {0, 62}, b \in {0, 31}, i \in {0, 5, 768},
          lit \in {{}, 0 .. 3, 0 .. (SCREEN_WIDTH * SCREEN_HEIGHT - 1)} :
          Equals([Loaded(<< H(13, 0, 1, n), H(0, 0, 14, 0), H(13, 0, 1, n) >>)
                     EXCEPT !.v_reg = Regs(a, b, 0),
                            !.i_reg = i,
                            !.screen = lit])
    /\ opcode = 0
    /\ instruction = NotDecoded

\* tick while pc is at one of the three instructions
ScreenStep ==
    /\ pc < ROM_START + 6
    /\ Tick

\* the host has drawn the frame: c8.draw_flag = false
ConsumeFrame ==
    /\ panic = "none"
    /\ draw_flag
    /\ Becomes([Machine EXCEPT !.draw_flag = FALSE])
    /\ UNCHANGED << opcode, instruction >>

ScreenNext == ScreenStep \/ ConsumeFrame \/ Reset

ScreenSpec == ScreenInit /\ [][ScreenNext]_vars

----------------------------------------------------------------------------
\* The opcode table of the instruction set, as the specification states it:
\* the variant, its four nibbles (a letter: any value) and its operands

OpcodeTable ==
    << << "Ins00E0", 0, 0, 14, 0, "" >>,
       << "Ins00EE", 0, 0, 14, 14, "" >>,
       << "Ins1NNN", 1, W, W, W, "NNN" >>,
       << "Ins2NNN", 2, W, W, W, "NNN" >>,
       << "Ins3XNN", 3, W, W, W, "XNN" >>,
       << "Ins4XNN", 4, W, W, W, "XNN" >>,
       << "Ins5XY0", 5, W, W, 0, "XY" >>,
       << "Ins6XNN", 6, W, W, W, "XNN" >>,
       << "Ins7XNN", 7, W, W, W, "XNN" >>,
       << "Ins8XY0", 8, W, W, 0, "XY" >>,
       << "Ins8XY1", 8, W, W, 1, "XY" >>,
       << "Ins8XY2", 8, W, W, 2, "XY" >>,
       << "Ins8XY3", 8, W, W, 3, "XY" >>,
       << "Ins8XY4", 8, W, W, 4, "XY" >>,
       << "Ins8XY5", 8, W, W, 5, "XY" >>,
       << "Ins8XY6", 8, W, W, 6, "XY" >>,
       << "Ins8XY7", 8, W, W, 7, "XY" >>,
       << "Ins8XYE", 8, W, W, 14, "XY" >>,
       << "Ins9XY0", 9, W, W, 0, "XY" >>,
       << "InsANNN", 10, W, W, W, "NNN" >>,
       << "InsBNNN", 11, W, W, W, "NNN" >>,
       << "InsCXNN", 12, W, W, W, "XNN" >>,
       << "InsDXYN", 13, W, W, W, "XYN" >>,
       << "InsEX9E", 14, W, 9, 14, "X" >>,
       << "InsEXA1", 14, W, 10, 1, "X" >>,
       << "InsFX07", 15, W, 0, 7, "X" >>,
       << "InsFX0A", 15, W, 0, 10, "X" >>,
       << "InsFX15", 15, W, 1, 5, "X" >>,
       << "InsFX18", 15, W, 1, 8, "X" >>,
       << "InsFX1E", 15, W, 1, 14, "X" >>,
       << "InsFX29", 15, W, 2, 9, "X" >>,
       << "InsFX33", 15, W, 3, 3, "X" >>,
       << "InsFX55", 15, W, 5, 5, "X" >>,
       << "InsFX65", 15, W, 6, 5, "X" >> >>

\* bits hi..lo of an opcode, by division
Bits(op, hi, lo) == (op \div (2 ^ lo)) % (2 ^ (hi - lo + 1))

\* the rows of the table that opcode op matches
Matching(op) ==
    {i \in 1 .. Len(OpcodeTable) :
        /\ OpcodeTable[i][2] = Bits(op, 15, 12)
        /\ OpcodeTable[i][3] \in {W, Bits(op, 11, 8)}
        /\ OpcodeTable[i][4] \in {W, Bits(op, 7, 4)}
        /\ OpcodeTable[i][5] \in {W, Bits(op, 3, 0)}}

\* the instruction of row i for opcode op
Variant(i, op) ==
    LET name == OpcodeTable[i][1]
        kind == OpcodeTable[i][6]
    IN  CASE kind = "" -> << name >>
          [] kind = "NNN" -> << name, Bits(op, 11, 0) >>
          [] kind = "XNN" -> << name, Bits(op, 11, 8), Bits(op, 7, 0) >>
          [] kind = "XY" -> << name, Bits(op, 11, 8), Bits(op, 7, 4) >>
          [] kind = "XYN" ->
                << name, Bits(op, 11, 8), Bits(op, 7, 4), Bits(op, 3, 0) >>
          [] kind = "X" -> << name, Bits(op, 11, 8) >>

\* the word at pc, big-endian
WordAt(mem, a) == Load(mem, a) * 256 + Load(mem, a + 1)

\* C1: every 16-bit opcode decodes to the variant of the single row of the
\* 34-row table it matches, with X = bits 11..8, Y = bits 7..4, N = bits
\* 3..0, NN = bits 7..0, NNN = bits 11..0, and an opcode matching no row
\* yields UnknownOpcode carrying that opcode.
C1_DecodeTotal ==
    /\ Len(OpcodeTable) = 34
    /\ instruction # NotDecoded =>
          /\ opcode = WordAt(memory, PROGRAM_START)
          /\ Cardinality(Matching(opcode)) <= 1
          /\ Matching(opcode) = {} =>
                instruction = << "Err", << "UnknownOpcode", opcode >> >>
          /\ \A i \in Matching(opcode) :
                instruction = << "Ok", Variant(i, opcode) >>

\* the near miss 0x8AB9 was decoded
C1_Witness ==
    /\ opcode = H(8, 10, 11, 9)
    /\ instruction = << "Err", << "UnknownOpcode", 35513 >> >>

\* the step is a call of tick that fetches the opcode at pc
Fetches == Tick /\ pc + 1 < MEMORY_SIZE

\* C2: a step that fetches an opcode of no table row returns UnknownOpcode
\* carrying the big-endian word at pc, leaves pc 2 greater, and changes no
\* other part of the machine.
C2_UnknownOpcodeStep ==
    [][(Fetches /\ Matching(WordAt(memory, pc)) = {}) =>
          /\ instruction' = << "Err", << "UnknownOpcode", WordAt(memory, pc) >> >>
          /\ pc' = pc + 2
          /\ UNCHANGED << memory, v_reg, i_reg, delay_timer, sound_timer,
                          stack, stack_pointer, keypad, screen, draw_flag,
                          rng, wait_for_key_release, panic >>]_vars

\* RomTimers has stepped over 0x5CD1 at 0x20C with its registers, a timer and
\* the key latch set
C2_Witness ==
    /\ instruction = << "Err", << "UnknownOpcode", H(5, 12, 13, 1) >> >>
    /\ pc = 526
    /\ v_reg[0] = 3 /\ v_reg[1] = 2 /\ v_reg[2] = 1
    /\ delay_timer = 3
    /\ wait_for_key_release = << "Some", 1 >>

\* C3: a call at pc = p with depth d < 16 stores p + 2 in slot d, makes the
\* depth d + 1 and jumps to NNN; a return at depth d >= 1 jumps to the
\* address in slot d - 1 and makes the depth d - 1, leaving the slots as they
\* are; no other instruction touches the stack. So returns resume after
\* their matching calls, last in first out.
C3_CallReturn ==
    [][Fetches =>
          LET w == WordAt(memory, pc)
              d == stack_pointer
              call == Bits(w, 15, 12) = 2
              return == w = H(0, 0, 14, 14)
          IN  /\ (call /\ d < 16) =>
                    /\ stack' = [stack EXCEPT ![d] = pc + 2]
                    /\ stack_pointer' = d + 1
                    /\ pc' = Bits(w, 11, 0)
              /\ (return /\ d >= 1) =>
                    /\ pc' = stack[d - 1]
                    /\ stack_pointer' = d - 1
                    /\ stack' = stack
              /\ (~call /\ ~return) => UNCHANGED << stack, stack_pointer >>]_vars

\* RomNested: the call at 0x202 called 0x208, which called 0x20C; the inner
\* return resumed at 0x20A and the outer one at 0x204, at depth 0
C3_Witness ==
    /\ instruction = << "Ok", << "Ins00EE" >> >>
    /\ pc = 516
    /\ stack_pointer = 0
    /\ stack[0] = 516 /\ stack[1] = 522

\* C4: the depth of the call stack is between 0 and 16 in every state, and a
\* call at depth 16 halts without writing a slot or changing the depth.
C4_DepthBounded ==
    [][/\ stack_pointer' \in 0 .. STACK_SIZE
       /\ (Fetches /\ Bits(WordAt(memory, pc), 15, 12) = 2
                   /\ stack_pointer = STACK_SIZE) =>
             /\ panic' = PanicStack
             /\ UNCHANGED << stack, stack_pointer >>]_vars

\* C6: before every fetch pc and pc + 1 address memory.
C6_PcInMemory == panic = "none" => (pc >= 0 /\ pc + 1 < MEMORY_SIZE)

\* the largest value pc takes: V0 + NNN with V0 = 255 and NNN = 0xFFF
MaxPc == 255 + 4095

\* C6 as amended: pc never exceeds 255 + 4095, and a step taken when pc or
\* pc + 1 is outside memory halts on the out-of-range index without changing
\* the machine.
C6_PcBounded ==
    [][/\ pc' \in 0 .. MaxPc
       /\ (Tick /\ pc + 1 >= MEMORY_SIZE) =>
             /\ panic' = PanicIndex
             /\ UNCHANGED << fields, opcode, instruction >>]_vars

\* RomJumpV0 jumped to 255 + 0xFFF and the next step halted there
C6_Witness ==
    /\ pc = MaxPc
    /\ panic = PanicIndex
    /\ instruction = << "Ok", << "InsBNNN", 4095 >> >>

\* C7: tick_timer replaces each timer by max(value - 1, 0) and changes
\* nothing else.
C7_TickTimer ==
    [][TickTimer =>
          /\ delay_timer' = (IF delay_timer = 0 THEN 0 ELSE delay_timer - 1)
          /\ sound_timer' = (IF sound_timer = 0 THEN 0 ELSE sound_timer - 1)
          /\ delay_timer' \in 0 .. 255 /\ sound_timer' \in 0 .. 255
          /\ UNCHANGED << memory, pc, v_reg, i_reg, stack, stack_pointer,
                          keypad, screen, draw_flag, rng,
                          wait_for_key_release, panic >>]_vars

\* RomTimers read delay = 3 into V3 when sound was 2; three calls of
\* tick_timer later delay is 0 and sound, 0 after two, stayed 0
C7_Witness ==
    /\ instruction = << "Ok", << "InsFX07", 3 >> >>
    /\ v_reg[3] = 3
    /\ v_reg[1] = 2
    /\ delay_timer = 0
    /\ sound_timer = 0

\* C5: apart from a call at depth 16, executing a decodable instruction
\* completes without a fault for all register and index register values.
C5_NoFault == panic \in {"none", PanicStack}

\* C8: 8XY4 sets VX = (VX + VY) mod 256 and VF = 1 iff VX + VY > 255; 8XY5
\* sets VX = (VX - VY) mod 256 and VF = 1 iff VX >= VY; 8XY7 sets
\* VX = (VY - VX) mod 256 and VF = 1 iff VY >= VX. The flag is written last,
\* so with X = F the register holds the flag.
C8_AddSub ==
    [][Fetches =>
          LET w == WordAt(memory, pc)
              k == Bits(w, 3, 0)
              x == Bits(w, 11, 8)
              vx == v_reg[x]
              vy == v_reg[Bits(w, 7, 4)]
              res == CASE k = 4 -> (vx + vy) % 256
                       [] k = 5 -> (vx - vy) % 256
                       [] OTHER -> (vy - vx) % 256
              flag == CASE k = 4 -> IF vx + vy > 255 THEN 1 ELSE 0
                        [] k = 5 -> IF vx >= vy THEN 1 ELSE 0
                        [] OTHER -> IF vy >= vx THEN 1 ELSE 0
          IN  (Bits(w, 15, 12) = 8 /\ k \in {4, 5, 7}) =>
                 v_reg' = [i \in 0 .. 15 |->
                             IF i = 15 THEN flag
                             ELSE IF i = x THEN res
                             ELSE v_reg[i]]]_vars

\* 8F15 with VF = 0 and V1 = 1: the difference 255 is replaced by the flag 0
C8_Witness ==
    /\ instruction = << "Ok", << "Ins8XY5", 15, 1 >> >>
    /\ v_reg[1] = 1
    /\ v_reg[15] = 0
    /\ v_reg[0] = 255

\* the sprite bit at column col of the row byte
SpriteBit(byte, col) == Bits(byte, 7 - col, 7 - col) = 1

\* C9: after DXYN, VF is 1 iff a set sprite bit was drawn onto a cell that
\* was already set, and 0 otherwise; its old value never survives.
C9_DrawFlag ==
    [][Fetches =>
          LET w == WordAt(memory, pc)
              x0 == v_reg[Bits(w, 11, 8)] % 64
              y0 == v_reg[Bits(w, 7, 4)] % 32
              n == Bits(w, 3, 0)
              hit == \E row \in 0 .. n - 1, col \in 0 .. 7 :
                        /\ x0 + col < 64
                        /\ y0 + row < 32
                        /\ SpriteBit(Load(memory, i_reg + row), col)
                        /\ (x0 + col) + 64 * (y0 + row) \in screen
          IN  (Bits(w, 15, 12) = 13 /\ panic' = "none") =>
                 v_reg'[15] = (IF hit THEN 1 ELSE 0)]_vars

\* D0F2 with VF = 1 as the row register: glyph 0 drawn at (0, 1) over the
\* four lit cells of row 0 hits none of them, and VF = 1 became 0
C9_Witness ==
    /\ instruction = << "Ok", << "InsDXYN", 0, 15, 2 >> >>
    /\ pc = 514
    /\ i_reg = 0
    /\ v_reg[0] = 0
    /\ v_reg[15] = 0
    /\ screen = {0, 1, 2, 3, 64, 65, 66, 67, 128, 131}

\* C10: FX0A at pc = p with all keys released leaves pc = p and the machine
\* unchanged; with a key pressed it sets VX and the latch to the lowest
\* pressed index and leaves pc = p + 2, whatever the latch held.
C10_KeyWait ==
    [][Fetches =>
          LET w == WordAt(memory, pc)
              x == Bits(w, 11, 8)
              down == {k \in 0 .. 15 : keypad[k]}
          IN  (Bits(w, 15, 12) = 15 /\ Bits(w, 7, 0) = 10) =>
                 /\ down = {} => UNCHANGED << fields, panic >>
                 /\ \A k \in down :
                       (\A j \in down : k <= j) =>
                          /\ v_reg' = [v_reg EXCEPT ![x] = k]
                          /\ wait_for_key_release' = << "Some", k >>
                          /\ pc' = pc + 2]_vars

\* FF0A with keys 3 and 15 pressed and the latch holding 9: VF and the latch
\* are 3
C10_Witness ==
    /\ instruction = << "Ok", << "InsFX0A", 15 >> >>
    /\ keypad[3] /\ keypad[15] /\ ~keypad[1]
    /\ v_reg[15] = 3
    /\ wait_for_key_release = << "Some", 3 >>
    /\ pc = 514

----------------------------------------------------------------------------
\* memory mem holds the glyph table in bytes 0 .. 79
FontIn(mem) == \A a \in 0 .. 79 : Load(mem, a) = FONTSET[a + 1]

\* C11: after reset() in any reachable state the machine is the freshly
\* constructed machine with the font loaded: pc = 512, registers, index
\* register, timers and call stack zero, keys released, display blank,
\* redraw flag clear, key-wait latch empty, memory the font and zero elsewhere.
C11_ResetFresh ==
    [][Reset =>
          /\ pc' = 512
          /\ \A i \in 0 .. 15 : v_reg'[i] = 0
          /\ i_reg' = 0
          /\ delay_timer' = 0 /\ sound_timer' = 0
          /\ stack_pointer' = 0
          /\ \A k \in 0 .. 15 : ~keypad'[k]
          /\ screen' = {}
          /\ ~draw_flag'
          /\ wait_for_key_release' = << "None" >>
          /\ FontIn(memory')
          /\ \A a \in 80 .. 4095 : Load(memory', a) = 0]_vars

\* C12 as stated: whenever an instruction executed by tick, or reset,
\* changes the display, draw_flag is true immediately afterwards.
C12_RedrawOnChange ==
    [][((Tick \/ Reset) /\ screen' # screen) => draw_flag']_vars

\* C12 as amended: whenever an instruction executed by tick changes the
\* display, draw_flag is true immediately afterwards; reset blanks the display
\* and leaves draw_flag false.
C12_StepRedraw ==
    [][/\ (Tick /\ screen' # screen) => draw_flag'
       /\ Reset => (screen' = {} /\ ~draw_flag')]_vars

\* D012 has drawn the first two rows of glyph 0 at (0, 0) on a blank display
\* whose frame the host had consumed
C12_Witness ==
    /\ instruction = << "Ok", << "InsDXYN", 0, 1, 2 >> >>
    /\ screen = {0, 1, 2, 3, 64, 67}
    /\ draw_flag
    /\ pc = 518

\* C13: load_rom(bytes) with Len(bytes) <= 3584 makes memory[512 + i] the
\* i-th byte for every i < Len(bytes) and leaves every other memory byte (the
\* font included) and every other field unchanged.
C13_LoadRom ==
    [][\A r \in 1 .. Len(LoadBufs) :
          (LoadRomOf(r) /\ Len(LoadBufs[r]) <= 3584) =>
             LET bytes == LoadBufs[r]
                 inside == 512 .. (511 + Len(bytes))
             IN  /\ \A a \in inside : Load(memory', a) = bytes[a - 511]
                 /\ \A a \in ((DOMAIN memory) \cup (DOMAIN memory')) \ inside :
                       Load(memory', a) = Load(memory, a)
                 /\ DOMAIN memory' \subseteq 0 .. 4095
                 /\ UNCHANGED << pc, v_reg, i_reg, delay_timer, sound_timer,
                                 stack, stack_pointer, keypad, screen,
                                 draw_flag, rng, wait_for_key_release,
                                 panic >>]_vars

\* 12 34 56 loaded over RomTimers (60 03 F0 15 ...): the fourth program byte,
\* the font and the bytes at 300 and 4095 are as before
C13_Witness ==
    /\ Load(memory, 512) = 18 /\ Load(memory, 513) = 52
    /\ Load(memory, 514) = 86 /\ Load(memory, 515) = 21
    /\ FontIn(memory)
    /\ Load(memory, 300) = 9 /\ Load(memory, 4095) = 7
    /\ v_reg[0] = 255

\* the k-th value of the recurrence seed = (75 * seed + 74) mod 65536
RECURSIVE Nth(_, _)
Nth(sd, k) == IF k = 0 THEN sd ELSE (75 * Nth(sd, k - 1) + 74) % 65536

\* C14: every call of the generator sets seed to (75 * seed + 74) mod 65536
\* and returns the new seed (CXFF stores its low byte in VX); after k calls
\* (k is V1, or V1 + 1 between the call and the count) the seed is the k-th
\* value of the recurrence from the initial seed (noted in V2, V3), the same
\* for every generator started from that seed.
C14_Lcg ==
    /\ [][Fetches =>
             LET w == WordAt(memory, pc)
             IN  (Bits(w, 15, 12) = 12 /\ Bits(w, 7, 0) = 255) =>
                    /\ rng' = (75 * rng + 74) % 65536
                    /\ v_reg'[Bits(w, 11, 8)] = rng' % 256]_vars
    /\ [](rng = Nth(v_reg[2] * 256 + v_reg[3],
                    IF pc = 514 THEN v_reg[1] + 1 ELSE v_reg[1]))

\* the default seed 888 after three calls: 1138, 19888, 49882, whose low byte
\* is 218
C14_Witness ==
    /\ v_reg[2] * 256 + v_reg[3] = 888
    /\ v_reg[1] = 3
    /\ rng = 49882
    /\ v_reg[0] = 218
    /\ pc = 516

\* C15 as stated: pc is even in every reachable state.
C15_PcEven == pc % 2 = 0

\* C15 as amended: a step from an even pc with even return addresses on the
\* stack leaves pc and the return addresses even, except a step that executes
\* 1NNN or 2NNN with odd NNN or BNNN with odd V0 + NNN, which leaves pc odd.
C15_PcParity ==
    [][(Fetches /\ pc % 2 = 0 /\ \A j \in 0 .. 15 : stack[j] % 2 = 0) =>
          LET w == WordAt(memory, pc)
              top == Bits(w, 15, 12)
              target == IF top = 11 THEN v_reg[0] + Bits(w, 11, 0)
                        ELSE Bits(w, 11, 0)
              jumps == top \in {1, 2, 11} /\ panic' = "none"
          IN  /\ pc' % 2 = (IF jumps THEN target % 2 ELSE 0)
              /\ \A j \in 0 .. 15 : stack'[j] % 2 = 0]_vars

\* BFFE with V0 = 254 has jumped to the even address 4348
C15_Witness ==
    /\ instruction = << "Ok", << "InsBNNN", 4094 >> >>
    /\ v_reg[0] = 254
    /\ pc = 4348

\* some key of the keypad is pressed
AnyKeyDown == \E k \in 0 .. 15 : keypad[k]

\* C16: a step at FX0A with all keys released leaves pc at the FX0A, and
\* tick_timer changes only the timers; a step at FX0A with a key pressed moves
\* pc past it at once; so if from some point on a key stays pressed and the
\* host keeps stepping, the instruction after the FX0A is eventually executed.
C16_KeyWaitEnds ==
    /\ [][Fetches =>
             LET w == WordAt(memory, pc)
             IN  (Bits(w, 15, 12) = 15 /\ Bits(w, 7, 0) = 10) =>
                    pc' = (IF AnyKeyDown THEN pc + 2 ELSE pc)]_vars
    /\ [][TickTimer =>
             UNCHANGED << memory, pc, v_reg, i_reg, stack, stack_pointer,
                          keypad, screen, draw_flag, rng,
                          wait_for_key_release, panic >>]_vars
    /\ (<>[]AnyKeyDown) =>
          <>(instruction = << "Ok", << "Ins7XNN", 1, 1 >> >> /\ pc = 516)

\* F00A has ended with key 1 still pressed and latched, and 7101 has run
C16_Witness ==
    /\ instruction = << "Ok", << "Ins7XNN", 1, 1 >> >>
    /\ pc = 516
    /\ keypad[1] /\ ~keypad[0]
    /\ v_reg[0] = 1 /\ v_reg[1] = 1
    /\ wait_for_key_release = << "Some", 1 >>

C18_GlyphAddress ==
    [][Fetches =>
          LET w == WordAt(memory, pc)
          IN  (Bits(w, 15, 12) = 15 /\ Bits(w, 7, 0) = 41) =>
                 /\ i_reg' = 5 * (v_reg[Bits(w, 11, 8)] % 16)
                 /\ i_reg' \in {5 * g : g \in 0 .. 15}]_vars

\* C19: a step changes delay_timer only by FX15 (to VX) and sound_timer only
\* by FX18 (to VX); every other instruction leaves both as they were, and
\* FX07 copies delay_timer into VX.
C19_StepTimers ==
    [][Fetches =>
          LET w == WordAt(memory, pc)
              x == Bits(w, 11, 8)
              f == Bits(w, 15, 12) = 15
              low == Bits(w, 7, 0)
          IN  /\ delay_timer' = (IF f /\ low = 21 THEN v_reg[x] ELSE delay_timer)
              /\ sound_timer' = (IF f /\ low = 24 THEN v_reg[x] ELSE sound_timer)
              /\ (f /\ low = 7) => v_reg'[x] = delay_timer]_vars

\* F007 with delay_timer = 3 and sound_timer = 7: V0 is 3, the timers are as
\* before
C19_Witness ==
    /\ instruction = << "Ok", << "InsFX07", 0 >> >>
    /\ v_reg[0] = 3
    /\ delay_timer = 3
    /\ sound_timer = 7

\* the bitwise OR (k = 1), AND (k = 2) or XOR (k = 3) of the bytes a and b
Bitwise(k, a, b) ==
    LET bit(i) == CASE k = 1 -> IF Bits(a, i, i) + Bits(b, i, i) > 0 THEN 1 ELSE 0
                    [] k = 2 -> Bits(a, i, i) * Bits(b, i, i)
                    [] k = 3 -> (Bits(a, i, i) + Bits(b, i, i)) % 2
    IN  bit(0) + 2 * bit(1) + 4 * bit(2) + 8 * bit(3) + 16 * bit(4)
        + 32 * bit(5) + 64 * bit(6) + 128 * bit(7)

\* C20: after 8XY1, 8XY2, 8XY3 the register VF is 0; for X # F the register
\* VX is the OR, AND, XOR of the old VX and VY; for X = F the result is lost.
C20_LogicFlag ==
    [][Fetches =>
          LET w == WordAt(memory, pc)
              x == Bits(w, 11, 8)
              y == Bits(w, 7, 4)
              k == Bits(w, 3, 0)
          IN  (Bits(w, 15, 12) = 8 /\ k \in {1, 2, 3}) =>
                 /\ v_reg'[15] = 0
                 /\ x # 15 => v_reg'[x] = Bitwise(k, v_reg[x], v_reg[y])]_vars

\* 8F11 with V1 = 255: the OR 255 was written to VF and VF then zeroed
C20_Witness ==
    /\ instruction = << "Ok", << "Ins8XY1", 15, 1 >> >>
    /\ v_reg[1] = 255
    /\ v_reg[15] = 0
    /\ pc = 514

\* C21: DXYN with x0 = VX mod 64, y0 = VY mod 32 and its sprite rows in
\* memory toggles exactly the cells (x, y) with x0 <= x < min(x0 + 8, 64),
\* y0 <= y < min(y0 + N, 32) whose sprite bit 7 - (x - x0) of
\* memory[I + (y - y0)] is set; bits beyond the right or bottom edge are
\* dropped; every other cell, the index register and memory are unchanged.
C21_DrawClip ==
    [][Fetches =>
          LET w == WordAt(memory, pc)
              x0 == v_reg[Bits(w, 11, 8)] % 64
              y0 == v_reg[Bits(w, 7, 4)] % 32
              n == Bits(w, 3, 0)
              xs == {x \in x0 .. x0 + 7 : x < 64}
              ys == {y \in y0 .. y0 + n - 1 : y < 32}
              toggled == {c \in {x + 64 * y : x \in xs, y \in ys} :
                            SpriteBit(Load(memory, i_reg + (c \div 64) - y0),
                                      (c % 64) - x0)}
          IN  (Bits(w, 15, 12) = 13 /\ panic' = "none") =>
                 /\ screen' = (screen \ toggled) \cup (toggled \ screen)
                 /\ i_reg' = i_reg
                 /\ memory' = memory]_vars

\* D012 at (62, 0) on a blank display: of the rows F0 and 90 of glyph 0 only
\* the two leftmost columns are drawn, nothing appears at the left edge
C21_Witness ==
    /\ instruction = << "Ok", << "InsDXYN", 0, 1, 2 >> >>
    /\ v_reg[0] = 62 /\ v_reg[1] = 0
    /\ i_reg = 0
    /\ screen = {62, 63, 126}
    /\ pc = 514

C23_BulkStoreLoad ==
    /\ [][Fetches =>
             LET w == WordAt(memory, pc)
                 x == Bits(w, 11, 8)
                 f == Bits(w, 15, 12) = 15 /\ panic' = "none"
                 low == Bits(w, 7, 0)
                 written == i_reg .. (i_reg + x)
             IN  /\ (f /\ low = 85) =>
                       /\ \A i \in 0 .. x : Load(memory', i_reg + i) = v_reg[i]
                       /\ \A c \in ((DOMAIN memory) \cup (DOMAIN memory')) \ written :
                             Load(memory', c) = Load(memory, c)
                       /\ v_reg' = v_reg
                       /\ i_reg' = i_reg + x + 1
                 /\ (f /\ low = 101) =>
                       /\ \A i \in 0 .. x : v_reg'[i] = Load(memory, i_reg + i)
                       /\ \A i \in (x + 1) .. 15 : v_reg'[i] = v_reg[i]
                       /\ memory' = memory
                       /\ i_reg' = i_reg + x + 1]_vars
    /\ []((pc = 518 /\ panic = "none" /\ Bits(WordAt(memory, 512), 7, 0) = 85) =>
             \A i \in 0 .. 2 :
                i <= Bits(WordAt(memory, 512), 11, 8) => v_reg[i] = v_reg[8 + i])

\* F255, I := 4093, F265 with V0 = 255, V1 = 128: the last three bytes of
\* memory hold 255, 128, 7, the index register is 4096 and V0 .. V2 are as
\* noted
C23_Witness ==
    /\ instruction = << "Ok", << "InsFX65", 2 >> >>
    /\ pc = 518
    /\ Load(memory, 4093) = 255 /\ Load(memory, 4094) = 128
    /\ Load(memory, 4095) = 7
    /\ i_reg = 4096
    /\ v_reg[0] = 255 /\ v_reg[1] = 128 /\ v_reg[2] = 7 /\ v_reg[8] = 255

\* C24: a step that executes CXNN advances the seed once, to
\* (75 * seed + 74) mod 65536, and sets VX to the low byte of the new seed
\* AND NN; no other step and no other call (tick_timer, keypress,
\* load_fontset, load_rom, reset) changes the seed.
C24_SeedOwner ==
    [][LET w == WordAt(memory, pc)
           draws == Fetches /\ Bits(w, 15, 12) = 12
       IN  IF draws
           THEN /\ rng' = (75 * rng + 74) % 65536
                /\ v_reg'[Bits(w, 11, 8)] = Bitwise(2, rng' % 256, Bits(w, 7, 0))
           ELSE rng' = rng]_vars

\* C1A5 from seed 888 drew 1138, then reset: the machine is at the entry
\* point without a program and the seed is still 1138
C24_Witness ==
    /\ instruction = << "Ok", << "InsCXNN", 1, 165 >> >>
    /\ rng = 1138
    /\ pc = 512
    /\ v_reg[1] = 0
    /\ DOMAIN memory \subseteq 0 .. 79

============================================================================
